---- MODULE Spec2Model ----
(***************************************************************************)
(* A model of server_manager.py: the lifecycle of one Server (start, stop, *)
(* restart, the restart watcher thread, the usage sampler thread, log      *)
(* rotation) as the operator thread and the background threads interleave, *)
(* and the ServerManager registry (add, create, remove).                   *)
(***************************************************************************)
EXTENDS Integers, Sequences, FiniteSets, TLC

\* ---------------------------------------------------------------- bounds
MaxSpawn == 3          \* children spawned successfully in one behaviour
MaxCrashSpawn == 4     \* the same, in the crash-loop specification
MaxOps == 3            \* commands the operator issues in one behaviour
MaxFail == 1           \* Popen failures in one behaviour
MaxRotFail == 1        \* renames the file system refuses in one behaviour
MaxAge == 0            \* seconds a rotated file name stays addressable
MaxWatchers == 2       \* restart-watcher thread slots
MaxSamplers == 2       \* usage-sampler thread slots
MaxReg == 3            \* entries the registry holds at once
MaxIds == 3            \* Server objects constructed in one behaviour
MaxLogs == 1           \* log files kept per server name
MaxSend == 2           \* send_input calls in one behaviour
MaxInputSpawn == 2     \* children spawned in the input specification

\* ------------------------------------------------------ program constants
DefaultMaxRetries == 3 \* self.max_retries = 3
SleepTime == 1         \* time.sleep(1), join(timeout=1)
WaitTimeout == 5       \* self.process.wait(timeout=5)

Op == 0
Watchers == 1..MaxWatchers
Threads == {Op} \cup Watchers
Samplers == 1..MaxSamplers
Ages == 0..MaxAge
Contents == SUBSET (1..MaxCrashSpawn)
ServerTypes == {"python", "ruby"}
RetryChoices == {1, DefaultMaxRetries}

\* the lines the operator types, as sequences of characters
Lines == {<<"l", "s">>, <<"e", "x", "i", "t">>, <<" ", "E", "x", "i", "T", " ">>}

\* the registry's inputs: paths given to add, names and types given to create
Stems == {"srv", "web"}
CreateTypes == {"py", "JS", "rb"}
PathOf(dir, stem, ext) == [dir |-> dir, stem |-> stem, ext |-> ext]
\* the user's files that exist on disk
UserFiles == {PathOf("a", "srv", ".py"), PathOf("b", "srv", ".PY"),
              PathOf("a", "web", ".txt")}
UserPaths == UserFiles \cup {PathOf("b", "web", ".py")}
CreatedPaths == [dir : {"servers"}, stem : Stems, ext : {".py", ".js", ".rb"}]

VARIABLES
  auto_restart,    \* Server.auto_restart
  stype,           \* Server.type
  max_retries,     \* Server.max_retries
  monitor_enabled, \* Server.monitor_enabled
  process,         \* Server.process: 0 is None, else the child's index
  child,           \* the children spawned so far: [st, out]
  nfail,           \* Popen failures so far
  nrotfail,        \* renames of _rotate_log that failed so far
  restart_stop,    \* Server.restart_stop (Event)
  restart_thread,  \* Server.restart_thread: 0 is None, else a watcher slot
  retry_count,     \* Server.retry_count
  wstarts,         \* start() calls made by the watcher attached last
  monitor_stop,    \* Server.monitor_stop (Event)
  monitor_thread,  \* Server.monitor_thread: 0 is None, else a sampler slot
  sampler,         \* sampler slot -> pid it samples (0: no live thread)
  cur,             \* logs/<name>.log: [ex, by], by the runs whose output it holds
  rot,             \* age in seconds -> logs/<name>_<timestamp>.log
  archive,         \* rotated files older than MaxAge seconds: content -> how many
  pc,              \* thread -> position
  ts,              \* thread -> age of the timestamp read in _rotate_log
  lh,              \* thread -> the file start()'s log_handle is open on
  res,             \* thread -> outcome of the call in progress
  sp,              \* thread -> child spawned by the start() in progress
  elapsed,         \* thread -> seconds waited in the current timed wait
  cmd,             \* the operator's command in progress
  scen,            \* commands issued so far
  servers,         \* ServerManager.servers: [id, name, path, type, running]
  nextid,          \* Server objects constructed so far
  saved,           \* servers.json: [name, path, type]
  files,           \* the server files that exist on disk
  folders,         \* the names with a folder under servers/
  logs,            \* name -> log files under logs/ named after it
  removed,         \* the Server objects remove_server stopped and dropped
  rt,              \* the registry before the last add, while remove may follow
  sent,            \* what the children's stdin received: [to, data, via]
  text,            \* the line input() returned, or send_input's argument
  nread,           \* send_input calls so far
  stop_flag,       \* open_terminal's stop_flag (Event)
  reader           \* open_terminal's reader_thread: none, open, tail or dead

cfgVars == <<auto_restart, stype, max_retries>>
procVars == <<process, child, nfail>>
watchVars == <<restart_stop, restart_thread, retry_count, wstarts>>
monVars == <<monitor_stop, monitor_thread, sampler>>
fsVars == <<cur, rot, archive, nrotfail>>
locVars == <<ts, lh, res, sp>>
opVars == <<cmd, scen>>
ioVars == <<sent, text, nread, stop_flag, reader>>
srvVars == <<auto_restart, stype, max_retries, monitor_enabled, process, child,
          nfail, nrotfail, restart_stop, restart_thread, retry_count, wstarts,
          monitor_stop, monitor_thread, sampler, cur, rot, archive,
          pc, ts, lh, res, sp, elapsed, cmd, scen,
          sent, text, nread, stop_flag, reader>>
regVars == <<servers, nextid, saved, files, folders, logs, removed, rt>>
vars == <<srvVars, regVars>>

\* --------------------------------------------------------------- helpers
Min(a, b) == IF a < b THEN a ELSE b

\* Server.is_running
ChildAlive(c) == c # 0 /\ child[c].st = "alive"
is_running == ChildAlive(process)

\* threading.Thread.is_alive
ThreadAlive(w) == w # 0 /\ pc[w] # "dead"
SamplerAlive(s) == s # 0 /\ sampler[s] # 0

\* the launch command of start(): "none" when the type is unmapped
CmdFor(t) == IF t \in {"python", "node"} THEN t ELSE "none"

LiveChildren == {c \in 1..Len(child) : child[c].st = "alive"}
LiveWatchers == {w \in Watchers : pc[w] # "dead"}
LiveSamplers == {s \in Samplers : sampler[s] # 0}

\* timed waits and their durations
WaitPcs == {"w_backoff", "w_sleep", "t_join", "tm_join", "r_sleep", "t_wait"}
Dur(p) == IF p = "t_wait" THEN WaitTimeout ELSE SleepTime

Goto(t, p) ==
  /\ pc' = [pc EXCEPT ![t] = p]
  /\ elapsed' = [elapsed EXCEPT ![t] = 0]

\* where start() returns to: the command loop, or restart_loop's sleep
StartRet(t) == IF t = Op THEN "done" ELSE "w_sleep"

\* a file of the log directory, and none
File(by) == [ex |-> TRUE, by |-> by]
NoFile == [ex |-> FALSE, by |-> {}]

\* an open file follows its inode: where the file a handle is open on now is
Handle(k, a) == [k |-> k, a |-> a]
NoHandle == Handle("none", 0)
OnCur == Handle("cur", 0)
OnRot(a) == Handle("rot", a)
Unlinked == Handle("gone", 0)
Archived == Handle("arch", 0)

\* Path.rename(rotated): the current log takes the rotated name, what bore it is gone
AfterRename(h, a) ==
  IF h = OnCur THEN OnRot(a) ELSE IF h = OnRot(a) THEN Unlinked ELSE h
\* Path.unlink: the current log's name is removed
AfterUnlink(h) == IF h = OnCur THEN Unlinked ELSE h
\* a second later every timestamp is one second older
AfterTick(h) ==
  IF h.k = "rot"
    THEN IF h.a = MaxAge THEN Archived ELSE OnRot(h.a + 1)
    ELSE h

\* ------------------------------------------------------------------ Init
\* ServerManager.__init__ with no servers.json
RegInit ==
  /\ servers = <<>>
  /\ nextid = 0
  /\ saved = <<>>
  /\ files = UserFiles
  /\ folders = {}
  /\ logs = [n \in Stems |-> 0]
  /\ removed = {}
  /\ rt = [phase |-> "none", name |-> "none", before |-> <<>>,
           logs |-> [n \in Stems |-> 0]]

\* Server.__init__, with the fields load_servers may set
ServerInit ==
  /\ auto_restart \in BOOLEAN
  /\ stype \in ServerTypes
  /\ max_retries \in RetryChoices
  /\ process = 0
  /\ child = <<>>
  /\ nfail = 0
  /\ nrotfail = 0
  /\ restart_stop = FALSE
  /\ restart_thread = 0
  /\ retry_count = 0
  /\ wstarts = 0
  /\ monitor_stop = FALSE
  /\ monitor_thread = 0
  /\ sampler = [s \in Samplers |-> 0]
  /\ cur = NoFile
  /\ rot = [a \in Ages |-> NoFile]
  /\ archive = [c \in Contents |-> 0]
  /\ pc = [t \in Threads |-> IF t = Op THEN "idle" ELSE "dead"]
  /\ ts = [t \in Threads |-> 0]
  /\ lh = [t \in Threads |-> NoHandle]
  /\ res = [t \in Threads |-> "none"]
  /\ sp = [t \in Threads |-> 0]
  /\ elapsed = [t \in Threads |-> 0]
  /\ cmd = "none"
  /\ scen = 0
  /\ sent = <<>>
  /\ text = <<>>
  /\ nread = 0
  /\ stop_flag = FALSE
  /\ reader = "none"

\* line 47: a server is constructed with monitoring off
Init == ServerInit /\ RegInit /\ monitor_enabled = FALSE

\* ------------------------------------------------------------ Server.start
\* start() without the unknown-type early return
StartCheckAnyType(t) ==
  /\ pc[t] = "s_check"
  /\ IF is_running
       THEN /\ res' = [res EXCEPT ![t] = "already"]
            /\ Goto(t, StartRet(t))
       ELSE /\ res' = [res EXCEPT ![t] = "none"]
            /\ Goto(t, "s_rot")
  /\ UNCHANGED <<regVars, ioVars, cfgVars, monitor_enabled, procVars, watchVars,
                 monVars, fsVars, ts, lh, sp, opVars>>

\* lines 73-84: the already-running and unknown-type early returns
StartCheck(t) ==
  /\ pc[t] = "s_check"
  /\ IF is_running
       THEN /\ res' = [res EXCEPT ![t] = "already"]
            /\ Goto(t, StartRet(t))
       ELSE IF CmdFor(stype) = "none"
         THEN /\ res' = [res EXCEPT ![t] = "unknown"]
              /\ Goto(t, StartRet(t))
         ELSE /\ res' = [res EXCEPT ![t] = "none"]
              /\ Goto(t, "s_rot")
  /\ UNCHANGED <<regVars, ioVars, cfgVars, monitor_enabled, procVars, watchVars,
                 monVars, fsVars, ts, lh, sp, opVars>>

\* _rotate_log lines 60-62: the existence test and the timestamp
RotateStamp(t) ==
  /\ pc[t] = "s_rot"
  /\ IF cur.ex
       THEN /\ ts' = [ts EXCEPT ![t] = 0]
            /\ Goto(t, "s_move")
       ELSE /\ ts' = ts
            /\ Goto(t, "s_open")
  /\ UNCHANGED <<regVars, ioVars, cfgVars, monitor_enabled, procVars, watchVars,
                 monVars, fsVars, lh, res, sp, opVars>>

\* _rotate_log lines 63-70: rename, else copy and unlink, else give up
RotateMove(t) ==
  /\ pc[t] = "s_move"
  /\ \E how \in {"rename", "copy", "fail"} :
       /\ how = "rename" => cur.ex
       /\ how = "copy" => cur.ex /\ nrotfail < MaxRotFail
       /\ how = "fail" => ~cur.ex \/ nrotfail < MaxRotFail
       /\ nrotfail' = IF how = "rename" THEN nrotfail
                                        ELSE Min(nrotfail + 1, MaxRotFail)
       /\ IF how = "rename"
            THEN /\ rot' = [rot EXCEPT ![ts[t]] = cur]
                 /\ cur' = NoFile
                 /\ child' = [c \in 1..Len(child) |->
                                [child[c] EXCEPT !.out = AfterRename(@, ts[t])]]
                 /\ lh' = [u \in Threads |-> AfterRename(lh[u], ts[t])]
            ELSE IF how = "copy"
              THEN /\ rot' = [rot EXCEPT ![ts[t]] = File(cur.by)]
                   /\ cur' = NoFile
                   /\ child' = [c \in 1..Len(child) |->
                                  [child[c] EXCEPT !.out = AfterUnlink(@)]]
                   /\ lh' = [u \in Threads |-> AfterUnlink(lh[u])]
              ELSE UNCHANGED <<rot, cur, child, lh>>
  /\ ts' = [ts EXCEPT ![t] = 0]
  /\ Goto(t, "s_open")
  /\ UNCHANGED <<regVars, ioVars, cfgVars, monitor_enabled, process, nfail, watchVars,
                 monVars, archive, res, sp, opVars>>

\* line 88: open(self.log_file, "w") creates or truncates the current log
OpenLog(t) ==
  /\ pc[t] = "s_open"
  /\ cur' = File({})
  /\ lh' = [lh EXCEPT ![t] = OnCur]
  /\ Goto(t, "s_spawn")
  /\ UNCHANGED <<regVars, ioVars, cfgVars, monitor_enabled, procVars, watchVars,
                 monVars, rot, archive, nrotfail, ts, res, sp, opVars>>

\* lines 89-97 and 104-105: Popen with stdout=log_handle (the file holds the
\* run's output from then on), or the exception it raises
Spawn(t, cap) ==
  /\ pc[t] = "s_spawn"
  /\ \/ /\ Len(child) < cap
        /\ child' = Append(child, [st |-> "alive", out |-> lh[t]])
        /\ cur' = IF lh[t] = OnCur
                    THEN File(cur.by \cup {Len(child) + 1}) ELSE cur
        /\ rot' = IF lh[t].k = "rot"
                    THEN [rot EXCEPT ![lh[t].a].by = @ \cup {Len(child) + 1}]
                    ELSE rot
        /\ process' = Len(child) + 1
        /\ sp' = [sp EXCEPT ![t] = Len(child) + 1]
        /\ res' = [res EXCEPT ![t] = "spawned"]
        /\ nfail' = nfail
        /\ Goto(t, "s_mon")
     \/ /\ nfail < MaxFail
        /\ nfail' = nfail + 1
        /\ res' = [res EXCEPT ![t] = "failed"]
        /\ UNCHANGED <<process, child, sp, cur, rot>>
        /\ Goto(t, StartRet(t))
  /\ lh' = [lh EXCEPT ![t] = NoHandle]
  /\ UNCHANGED <<regVars, ioVars, cfgVars, monitor_enabled, watchVars, monVars,
                 archive, nrotfail, ts, opVars>>

\* lines 99-100 and 209-212: the guards of start_monitoring
MonitorGuard(t, enabled, new, back) ==
  /\ IF enabled /\ is_running /\ ~SamplerAlive(monitor_thread)
       THEN Goto(t, new)
       ELSE Goto(t, back)
  /\ UNCHANGED <<regVars, ioVars, cfgVars, monitor_enabled, procVars, watchVars,
                 monVars, fsVars, locVars, opVars>>

\* lines 213-226: clear the event and start a sampler thread on the child
MonitorAttach(t, back) ==
  /\ \E s \in Samplers :
       /\ sampler[s] = 0
       /\ \A s2 \in Samplers : sampler[s2] = 0 => s <= s2
       /\ sampler' = [sampler EXCEPT ![s] = process]
       /\ monitor_thread' = s
  /\ monitor_stop' = FALSE
  /\ Goto(t, back)
  /\ UNCHANGED <<regVars, ioVars, cfgVars, monitor_enabled, procVars, watchVars,
                 fsVars, locVars, opVars>>

StartMonitor(t) ==
  /\ pc[t] = "s_mon"
  /\ MonitorGuard(t, monitor_enabled, "s_mon2", "s_watch")

StartMonitorAttach(t) ==
  /\ pc[t] = "s_mon2"
  /\ MonitorAttach(t, "s_watch")

\* start_restart_monitor without the test of lines 108-109
WatchGuardNoAliveTest(t) ==
  /\ pc[t] = "s_watch"
  /\ IF auto_restart
       THEN Goto(t, "s_watch2")
       ELSE Goto(t, StartRet(t))
  /\ UNCHANGED <<regVars, ioVars, cfgVars, monitor_enabled, procVars, watchVars,
                 monVars, fsVars, locVars, opVars>>

\* lines 102-103 and 108-109: the guards of start_restart_monitor
WatchGuard(t) ==
  /\ pc[t] = "s_watch"
  /\ IF auto_restart /\ ~ThreadAlive(restart_thread)
       THEN Goto(t, "s_watch2")
       ELSE Goto(t, StartRet(t))
  /\ UNCHANGED <<regVars, ioVars, cfgVars, monitor_enabled, procVars, watchVars,
                 monVars, fsVars, locVars, opVars>>

\* lines 110-111 and 127-128: clear the event, reset the counter, start the thread
WatchAttach(t) ==
  /\ pc[t] = "s_watch2"
  /\ \E w \in Watchers :
       /\ pc[w] = "dead"
       /\ \A w2 \in Watchers : pc[w2] = "dead" => w <= w2
       /\ restart_thread' = w
       /\ pc' = [pc EXCEPT ![t] = StartRet(t), ![w] = "w_while"]
       /\ elapsed' = [elapsed EXCEPT ![t] = 0, ![w] = 0]
  /\ restart_stop' = FALSE
  /\ retry_count' = 0
  /\ wstarts' = 0
  /\ UNCHANGED <<regVars, ioVars, cfgVars, monitor_enabled, procVars, monVars, fsVars,
                 locVars, opVars>>

\* ------------------------------------------------------------ restart_loop
\* the loop test with the event ignored
WatcherTestIgnoresStop(w) ==
  /\ pc[w] = "w_while"
  /\ Goto(w, "w_poll")
  /\ UNCHANGED <<regVars, ioVars, cfgVars, monitor_enabled, procVars, watchVars,
                 monVars, fsVars, locVars, opVars>>

\* line 114: the loop test
WatcherTest(w) ==
  /\ pc[w] = "w_while"
  /\ IF restart_stop THEN Goto(w, "dead") ELSE Goto(w, "w_poll")
  /\ UNCHANGED <<regVars, ioVars, cfgVars, monitor_enabled, procVars, watchVars,
                 monVars, fsVars, locVars, opVars>>

\* restart_loop with the retry test off by one (<= for <)
WatcherPollOffByOne(w) ==
  /\ pc[w] = "w_poll"
  /\ IF process # 0 /\ ~ChildAlive(process)
       THEN IF retry_count <= max_retries
              THEN /\ retry_count' = retry_count + 1
                   /\ Goto(w, "w_backoff")
              ELSE /\ retry_count' = retry_count
                   /\ Goto(w, "dead")
       ELSE /\ retry_count' = retry_count
            /\ Goto(w, "w_sleep")
  /\ UNCHANGED <<regVars, ioVars, cfgVars, monitor_enabled, procVars, restart_stop,
                 restart_thread, wstarts, monVars, fsVars, locVars, opVars>>

\* lines 115-124: poll the handle; count a retry, or give up
WatcherPoll(w) ==
  /\ pc[w] = "w_poll"
  /\ IF process # 0 /\ ~ChildAlive(process)
       THEN IF retry_count < max_retries
              THEN /\ retry_count' = retry_count + 1
                   /\ Goto(w, "w_backoff")
              ELSE /\ retry_count' = retry_count
                   /\ Goto(w, "dead")
       ELSE /\ retry_count' = retry_count
            /\ Goto(w, "w_sleep")
  /\ UNCHANGED <<regVars, ioVars, cfgVars, monitor_enabled, procVars, restart_stop,
                 restart_thread, wstarts, monVars, fsVars, locVars, opVars>>

\* lines 120-121: the backoff is over, call start()
WatcherRestart(w) ==
  /\ pc[w] = "w_backoff"
  /\ elapsed[w] >= SleepTime
  /\ wstarts' = wstarts + 1
  /\ Goto(w, "s_check")
  /\ UNCHANGED <<regVars, ioVars, cfgVars, monitor_enabled, procVars, restart_stop,
                 restart_thread, retry_count, monVars, fsVars, locVars,
                 opVars>>

\* line 125: the polling period is over
WatcherWake(w) ==
  /\ pc[w] = "w_sleep"
  /\ elapsed[w] >= SleepTime
  /\ res' = [res EXCEPT ![w] = "none"]
  /\ sp' = [sp EXCEPT ![w] = 0]
  /\ Goto(w, "w_while")
  /\ UNCHANGED <<regVars, ioVars, cfgVars, monitor_enabled, procVars, watchVars,
                 monVars, fsVars, ts, lh, opVars>>

\* ------------------------------------------------------------- Server.stop
\* line 131: restart_stop.set()
StopDisarm ==
  /\ pc[Op] = "t_set"
  /\ restart_stop' = TRUE
  /\ Goto(Op, IF restart_thread # 0 THEN "t_join" ELSE "t_check")
  /\ UNCHANGED <<regVars, ioVars, cfgVars, monitor_enabled, procVars, restart_thread,
                 retry_count, wstarts, monVars, fsVars, locVars, opVars>>

\* line 133: join(timeout=1) returns when the thread ended or the second passed
StopJoin ==
  /\ pc[Op] = "t_join"
  /\ ~ThreadAlive(restart_thread) \/ elapsed[Op] >= SleepTime
  /\ Goto(Op, "t_check")
  /\ UNCHANGED <<regVars, ioVars, cfgVars, monitor_enabled, procVars, watchVars,
                 monVars, fsVars, locVars, opVars>>

\* where stop() returns to: restart()'s sleep, remove_server, or the command loop
StopRet ==
  IF cmd = "restart" THEN "r_sleep" ELSE IF cmd = "remove" THEN "x_drop" ELSE "done"

\* lines 137 and 145-146
StopCheck ==
  /\ pc[Op] = "t_check"
  /\ IF is_running
       THEN /\ res' = res
            /\ Goto(Op, "tm_set")
       ELSE /\ res' = [res EXCEPT ![Op] = "notrunning"]
            /\ Goto(Op, StopRet)
  /\ UNCHANGED <<regVars, ioVars, cfgVars, monitor_enabled, procVars, watchVars,
                 monVars, fsVars, ts, lh, sp, opVars>>

\* line 229: monitor_stop.set()
MonitorDisarm ==
  /\ pc[Op] = "tm_set"
  /\ monitor_stop' = TRUE
  /\ Goto(Op, IF monitor_thread # 0 THEN "tm_join" ELSE
              IF cmd = "moff" THEN "done" ELSE "t_term")
  /\ UNCHANGED <<regVars, ioVars, cfgVars, monitor_enabled, procVars, watchVars,
                 monitor_thread, sampler, fsVars, locVars, opVars>>

\* line 231: join(timeout=1) on the sampler thread
MonitorJoin ==
  /\ pc[Op] = "tm_join"
  /\ ~SamplerAlive(monitor_thread) \/ elapsed[Op] >= SleepTime
  /\ Goto(Op, IF cmd = "moff" THEN "done" ELSE "t_term")
  /\ UNCHANGED <<regVars, ioVars, cfgVars, monitor_enabled, procVars, watchVars,
                 monVars, fsVars, locVars, opVars>>

\* line 139: terminate(); the child obeys the signal or ignores it
Terminate ==
  /\ pc[Op] = "t_term"
  /\ \E obeys \in BOOLEAN :
       child' = IF obeys /\ ChildAlive(process)
                  THEN [child EXCEPT ![process] = [st |-> "stopped", out |-> NoHandle]]
                  ELSE child
  /\ Goto(Op, "t_wait")
  /\ UNCHANGED <<regVars, ioVars, cfgVars, monitor_enabled, process, nfail, watchVars,
                 monVars, fsVars, locVars, opVars>>

\* lines 140-144: wait(timeout=5) returns, or times out and the child is killed
WaitOrKill ==
  /\ pc[Op] = "t_wait"
  /\ ~ChildAlive(process) \/ elapsed[Op] >= WaitTimeout
  /\ child' = IF ChildAlive(process)
                THEN [child EXCEPT ![process] = [st |-> "stopped", out |-> NoHandle]]
                ELSE child
  /\ res' = [res EXCEPT ![Op] = "stopped"]
  /\ Goto(Op, StopRet)
  /\ UNCHANGED <<regVars, ioVars, cfgVars, monitor_enabled, process, nfail, watchVars,
                 monVars, fsVars, ts, lh, sp, opVars>>

\* ---------------------------------------------------------- Server.restart
\* line 150: the settle delay is over, call start()
RestartSettle ==
  /\ pc[Op] = "r_sleep"
  /\ elapsed[Op] >= SleepTime
  /\ res' = [res EXCEPT ![Op] = "none"]
  /\ Goto(Op, "s_check")
  /\ UNCHANGED <<regVars, ioVars, cfgVars, monitor_enabled, procVars, watchVars,
                 monVars, fsVars, ts, lh, sp, opVars>>

\* ------------------------------------------------------------ monitor_loop
\* line 218: the sampler leaves its loop when disarmed or when its process died
SamplerExit(s) ==
  /\ sampler[s] # 0
  /\ monitor_stop \/ ~ChildAlive(sampler[s])
  /\ sampler' = [sampler EXCEPT ![s] = 0]
  /\ UNCHANGED <<regVars, ioVars, cfgVars, monitor_enabled, procVars, watchVars,
                 monitor_stop, monitor_thread, fsVars, pc, locVars, elapsed,
                 opVars>>

\* ------------------------------------------------------ Server.send_input
\* where send_input returns to: open_terminal's input loop, or the command loop
SendRet == IF cmd = "log" THEN "o_input" ELSE "done"

\* line 154 with the running test left out
SendCheckAlways ==
  /\ pc[Op] = "i_check"
  /\ res' = res
  /\ Goto(Op, "i_write")
  /\ UNCHANGED <<regVars, ioVars, cfgVars, monitor_enabled, procVars, watchVars,
                 monVars, fsVars, ts, lh, sp, opVars>>

\* lines 154 and 160-161: the running test, and the notice when it fails
SendCheck ==
  /\ pc[Op] = "i_check"
  /\ IF is_running
       THEN /\ res' = res
            /\ text' = text
            /\ Goto(Op, "i_write")
       ELSE /\ res' = [res EXCEPT ![Op] = "notrunning"]
            /\ text' = <<>>
            /\ Goto(Op, SendRet)
  /\ UNCHANGED <<regVars, sent, nread, stop_flag, reader, cfgVars,
                 monitor_enabled, procVars, watchVars, monVars, fsVars, ts, lh,
                 sp, opVars>>

\* lines 155-159: write text + "\n" and flush; a write the pipe refuses (always,
\* once the child is gone) raises, and the exception is caught and reported
SendWrite ==
  /\ pc[Op] = "i_write"
  /\ \E ok \in BOOLEAN :
       /\ ok => ChildAlive(process)
       /\ IF ok
            THEN /\ sent' = Append(sent, [to |-> process,
                                          data |-> text \o <<"\n">>,
                                          via |-> cmd])
                 /\ res' = [res EXCEPT ![Op] = "sent"]
            ELSE /\ sent' = sent
                 /\ res' = [res EXCEPT ![Op] = "sendfailed"]
  /\ text' = <<>>
  /\ Goto(Op, SendRet)
  /\ UNCHANGED <<regVars, nread, stop_flag, reader, cfgVars,
                 monitor_enabled, procVars, watchVars, monVars, fsVars, ts, lh,
                 sp, opVars>>

\* ---------------------------------------------------- Server.open_terminal
\* str.strip and str.lower
IsSpace(c) == c \in {" ", "\t", "\n"}
RECURSIVE LStrip(_)
LStrip(s) == IF s # <<>> /\ IsSpace(Head(s)) THEN LStrip(Tail(s)) ELSE s
RECURSIVE RStrip(_)
RStrip(s) ==
  IF s # <<>> /\ IsSpace(s[Len(s)]) THEN RStrip(SubSeq(s, 1, Len(s) - 1)) ELSE s
strip(s) == RStrip(LStrip(s))
LowerChar(c) ==
  CASE c = "E" -> "e" [] c = "X" -> "x" [] c = "I" -> "i" [] c = "T" -> "t"
    [] c = "L" -> "l" [] c = "S" -> "s" [] OTHER -> c
lower(s) == [i \in 1..Len(s) |-> LowerChar(s[i])]

\* the sentinel test with the trimming left out
IsExitUntrimmed(inp) == lower(inp) = <<"e", "x", "i", "t">>

\* line 194: user_input.strip().lower() == "exit"
IsExit(inp) == lower(strip(inp)) = <<"e", "x", "i", "t">>

\* lines 164-187: the two early returns; else the event is created clear and
\* the reader thread is started
TerminalOpen ==
  /\ pc[Op] = "o_check"
  /\ IF ~cur.ex
       THEN /\ res' = [res EXCEPT ![Op] = "nolog"]
            /\ UNCHANGED <<stop_flag, reader>>
            /\ Goto(Op, "done")
       ELSE IF ~is_running
         THEN /\ res' = [res EXCEPT ![Op] = "notrunning"]
              /\ UNCHANGED <<stop_flag, reader>>
              /\ Goto(Op, "done")
         ELSE /\ res' = res
              /\ stop_flag' = FALSE
              /\ reader' = "open"
              /\ Goto(Op, "o_input")
  /\ UNCHANGED <<regVars, sent, text, nread, cfgVars, monitor_enabled, procVars,
                 watchVars, monVars, fsVars, ts, lh, sp, opVars>>

\* lines 192-196: a line is read; the sentinel leaves the loop, any other line
\* goes to send_input
TerminalInput(inp) ==
  /\ pc[Op] = "o_input"
  /\ text' = inp
  /\ IF IsExit(inp)
       THEN /\ nread' = nread
            /\ Goto(Op, "o_fin")
       ELSE /\ nread < MaxSend
            /\ nread' = nread + 1
            /\ Goto(Op, "i_check")
  /\ res' = [res EXCEPT ![Op] = "none"]
  /\ UNCHANGED <<regVars, sent, stop_flag, reader, cfgVars, monitor_enabled,
                 procVars, watchVars, monVars, fsVars, ts, lh, sp, opVars>>

\* lines 197-198: input() raises KeyboardInterrupt or EOFError
TerminalInterrupt(how) ==
  /\ pc[Op] = "o_input"
  /\ res' = [res EXCEPT ![Op] = how]
  /\ Goto(Op, "o_fin")
  /\ UNCHANGED <<regVars, ioVars, cfgVars, monitor_enabled, procVars, watchVars,
                 monVars, fsVars, ts, lh, sp, opVars>>

\* line 200: stop_flag.set()
TerminalFinally ==
  /\ pc[Op] = "o_fin"
  /\ stop_flag' = TRUE
  /\ text' = <<>>
  /\ Goto(Op, "o_join")
  /\ UNCHANGED <<regVars, sent, nread, reader, cfgVars, monitor_enabled,
                 procVars, watchVars, monVars, fsVars, locVars, opVars>>

\* lines 201-205: reader_thread.join() returns when the thread has ended
TerminalJoin ==
  /\ pc[Op] = "o_join"
  /\ reader = "dead"
  /\ Goto(Op, "done")
  /\ UNCHANGED <<regVars, ioVars, cfgVars, monitor_enabled, procVars, watchVars,
                 monVars, fsVars, locVars, opVars>>

\* lines 173-177 and 185-186: the reader opens the log and prints what it
\* holds; it ends at once if the file cannot be opened
ReaderOpen ==
  /\ reader = "open"
  /\ reader' = IF cur.ex THEN "tail" ELSE "dead"
  /\ UNCHANGED <<regVars, sent, text, nread, stop_flag, cfgVars, monitor_enabled,
                 procVars, watchVars, monVars, fsVars, pc, locVars, elapsed,
                 opVars>>

\* lines 178-184: the tail loop ends at the test that finds the event set
ReaderTest ==
  /\ reader = "tail"
  /\ stop_flag
  /\ reader' = "dead"
  /\ UNCHANGED <<regVars, sent, text, nread, stop_flag, cfgVars, monitor_enabled,
                 procVars, watchVars, monVars, fsVars, pc, locVars, elapsed,
                 opVars>>

\* ------------------------------------------------------- the command loop
\* main lines 404-406: start, stop and restart of the server
Command(c) ==
  /\ pc[Op] = "idle"
  /\ scen < MaxOps
  /\ scen' = scen + 1
  /\ cmd' = c
  /\ Goto(Op, IF c = "start" THEN "s_check" ELSE "t_set")
  /\ UNCHANGED <<regVars, ioVars, cfgVars, monitor_enabled, procVars, watchVars,
                 monVars, fsVars, locVars>>

\* the same commands, issued in the order a script gives
RunScript(script) ==
  /\ scen < Len(script)
  /\ scen' = scen + 1
  /\ pc[Op] = "idle"
  /\ cmd' = script[scen + 1]
  /\ Goto(Op, IF script[scen + 1] = "start" THEN "s_check" ELSE "t_set")
  /\ UNCHANGED <<regVars, ioVars, cfgVars, monitor_enabled, procVars, watchVars,
                 monVars, fsVars, locVars>>

\* main lines 417-421: monitor <name> on
MonitorOn ==
  /\ pc[Op] = "idle"
  /\ scen < MaxOps
  /\ scen' = scen + 1
  /\ cmd' = "mon"
  /\ monitor_enabled' = TRUE
  /\ Goto(Op, "m_chk")
  /\ UNCHANGED <<regVars, ioVars, cfgVars, procVars, watchVars, monVars, fsVars,
                 locVars>>

MonitorOnGuard ==
  /\ pc[Op] = "m_chk"
  /\ MonitorGuard(Op, TRUE, "m_new", "done")

MonitorOnAttach ==
  /\ pc[Op] = "m_new"
  /\ MonitorAttach(Op, "done")

\* main lines 417-421: monitor <name> off
MonitorOff ==
  /\ pc[Op] = "idle"
  /\ scen < MaxOps
  /\ scen' = scen + 1
  /\ cmd' = "moff"
  /\ monitor_enabled' = FALSE
  /\ Goto(Op, "tm_set")
  /\ UNCHANGED <<regVars, ioVars, cfgVars, procVars, watchVars, monVars, fsVars,
                 locVars>>

\* main line 408: send <name> <msg>
SendCommand(txt) ==
  /\ pc[Op] = "idle"
  /\ scen < MaxOps
  /\ nread < MaxSend
  /\ scen' = scen + 1
  /\ nread' = nread + 1
  /\ cmd' = "send"
  /\ text' = txt
  /\ Goto(Op, "i_check")
  /\ UNCHANGED <<regVars, sent, stop_flag, reader, cfgVars, monitor_enabled,
                 procVars, watchVars, monVars, fsVars, locVars>>

\* main line 407: log <name>
LogCommand ==
  /\ pc[Op] = "idle"
  /\ scen < MaxOps
  /\ scen' = scen + 1
  /\ cmd' = "log"
  /\ Goto(Op, "o_check")
  /\ UNCHANGED <<regVars, ioVars, cfgVars, monitor_enabled, procVars, watchVars,
                 monVars, fsVars, locVars>>

\* the command returned; the loop reads the next one
Return ==
  /\ pc[Op] = "done"
  /\ res' = [res EXCEPT ![Op] = "none"]
  /\ sp' = [sp EXCEPT ![Op] = 0]
  /\ cmd' = "none"
  /\ Goto(Op, "idle")
  /\ UNCHANGED <<regVars, ioVars, cfgVars, monitor_enabled, procVars, watchVars,
                 monVars, fsVars, ts, lh, scen>>

\* ---------------------------------------------------------- the environment
\* the child exits on its own
ChildExit(c) ==
  /\ ChildAlive(c)
  /\ child' = [child EXCEPT ![c] = [st |-> "exited", out |-> NoHandle]]
  /\ UNCHANGED <<regVars, ioVars, cfgVars, monitor_enabled, process, nfail, watchVars,
                 monVars, fsVars, pc, locVars, elapsed, opVars>>

\* a second passes: timestamps age and timed waits advance
Tick ==
  /\ \A t \in Threads : pc[t] = "s_move" => ts[t] < MaxAge
  /\ \A t \in Threads : lh[t].k = "rot" => lh[t].a < MaxAge
  /\ rot' = [a \in Ages |-> IF a = 0 THEN NoFile ELSE rot[a - 1]]
  /\ archive' = IF rot[MaxAge].ex
                  THEN [archive EXCEPT ![rot[MaxAge].by] = @ + 1]
                  ELSE archive
  /\ child' = [c \in 1..Len(child) |-> [child[c] EXCEPT !.out = AfterTick(@)]]
  /\ lh' = [t \in Threads |-> AfterTick(lh[t])]
  /\ ts' = [t \in Threads |-> IF pc[t] = "s_move" THEN ts[t] + 1 ELSE ts[t]]
  /\ elapsed' = [t \in Threads |->
                   IF pc[t] \in WaitPcs
                     THEN Min(elapsed[t] + 1, Dur(pc[t]))
                     ELSE elapsed[t]]
  /\ UNCHANGED <<regVars, ioVars, cfgVars, monitor_enabled, process, nfail, watchVars,
                 monVars, cur, nrotfail, pc, res, sp, opVars>>

\* ---------------------------------------------------------- ServerManager
\* Server.EXT_MAP.get(p.suffix.lower())
Lower(x) == IF x = ".PY" THEN ".py" ELSE IF x = "JS" THEN "js" ELSE x
ExtMap(ext) ==
  IF ext = ".py" THEN "python" ELSE IF ext \in {".js", ".mjs"} THEN "node" ELSE "none"

\* get_server: the first entry of that name, 0 when there is none
get_server(name) ==
  IF \E i \in 1..Len(servers) : servers[i].name = name
    THEN CHOOSE i \in 1..Len(servers) :
           /\ servers[i].name = name
           /\ \A j \in 1..(i - 1) : servers[j].name # name
    ELSE 0

\* list.remove(s)
RemoveAt(seq, i) == [j \in 1..(Len(seq) - 1) |-> IF j < i THEN seq[j] ELSE seq[j + 1]]

\* save_servers: what servers.json holds of the list
Saved(list) ==
  [j \in 1..Len(list) |->
     [name |-> list[j].name, path |-> list[j].path, type |-> list[j].type]]

NewServer(name, path, type) ==
  [id |-> nextid + 1, name |-> name, path |-> path, type |-> type, running |-> FALSE]

Forget == [phase |-> "none", name |-> "none", before |-> <<>>,
           logs |-> [n \in Stems |-> 0]]

\* add_server
add_server(p) ==
  /\ Len(servers) < MaxReg
  /\ nextid < MaxIds
  /\ IF p \notin files \/ ExtMap(Lower(p.ext)) = "none"
       THEN /\ UNCHANGED <<servers, nextid, saved>>
            /\ rt' = Forget
       ELSE /\ servers' = Append(servers, NewServer(p.stem, p, ExtMap(Lower(p.ext))))
            /\ nextid' = nextid + 1
            /\ saved' = Saved(servers')
            /\ rt' = [phase |-> "added", name |-> p.stem, before |-> servers,
                      logs |-> logs]
  /\ UNCHANGED <<srvVars, files, folders, logs, removed>>

\* create_server
create_server(name, type) ==
  /\ Len(servers) < MaxReg
  /\ nextid < MaxIds
  /\ IF name \in folders
       THEN UNCHANGED <<servers, nextid, saved, files, folders>>
       ELSE LET ext == IF Lower(type) \in {"py", "python"} THEN ".py"
                       ELSE IF Lower(type) \in {"node", "js"} THEN ".js"
                       ELSE ".rb"
                srv_type == IF Lower(type) \in {"py", "python"} THEN "python" ELSE "node"
                server_file == PathOf("servers", name, ext)
            IN /\ folders' = folders \cup {name}
               /\ files' = files \cup {server_file}
               /\ servers' = Append(servers, NewServer(name, server_file, srv_type))
               /\ nextid' = nextid + 1
               /\ saved' = Saved(servers')
  /\ rt' = Forget
  /\ UNCHANGED <<srvVars, logs, removed>>

\* remove_server: stop() the first entry of that name and drop it from the list
remove_server(name) ==
  /\ LET i == get_server(name)
     IN IF i # 0
          THEN /\ removed' = removed \cup {[servers[i] EXCEPT !.running = FALSE]}
               /\ servers' = RemoveAt(servers, i)
               /\ saved' = Saved(servers')
          ELSE UNCHANGED <<servers, saved, removed>>
  /\ rt' = IF rt.phase = "added" /\ rt.name = name
             THEN [rt EXCEPT !.phase = "removed"]
             ELSE Forget
  /\ UNCHANGED <<srvVars, nextid, files, folders, logs>>

\* main line 404: start <name>, the entry's start() taken as a whole
StartNamed(name) ==
  /\ LET i == get_server(name)
     IN /\ i # 0
        /\ IF servers[i].running
             THEN UNCHANGED <<servers, logs>>
             ELSE /\ logs[name] < MaxLogs
                  /\ servers' = [servers EXCEPT ![i].running = TRUE]
                  /\ logs' = [logs EXCEPT ![name] = @ + 1]
  /\ rt' = Forget
  /\ UNCHANGED <<srvVars, nextid, saved, files, folders, removed>>

\* main line 405: stop <name>, the entry's stop() taken as a whole
StopNamed(name) ==
  /\ LET i == get_server(name)
     IN /\ i # 0
        /\ servers' = [servers EXCEPT ![i].running = FALSE]
  /\ rt' = Forget
  /\ UNCHANGED <<srvVars, nextid, saved, files, folders, logs, removed>>

\* ------------------------------------------------------------------ Next
\* start() as far as a thread runs it, with at most cap children spawned
StartStep(t, cap) ==
  \/ StartCheck(t)
  \/ RotateStamp(t)
  \/ RotateMove(t)
  \/ OpenLog(t)
  \/ Spawn(t, cap)
  \/ StartMonitor(t)
  \/ WatchGuard(t)
  \/ WatchAttach(t)

WatcherStep(w) ==
  \/ WatcherTest(w)
  \/ WatcherPoll(w)
  \/ WatcherRestart(w)
  \/ WatcherWake(w)

Next ==
  \/ \E c \in {"start", "stop", "restart"} : Command(c)
  \/ Return
  \/ \E t \in Threads : StartCheck(t)
  \/ \E t \in Threads : RotateStamp(t)
  \/ \E t \in Threads : RotateMove(t)
  \/ \E t \in Threads : OpenLog(t)
  \/ \E t \in Threads : Spawn(t, MaxSpawn)
  \/ \E t \in Threads : StartMonitor(t)
  \/ \E t \in Threads : WatchGuard(t)
  \/ \E t \in Threads : WatchAttach(t)
  \/ \E w \in Watchers : WatcherTest(w)
  \/ \E w \in Watchers : WatcherPoll(w)
  \/ \E w \in Watchers : WatcherRestart(w)
  \/ \E w \in Watchers : WatcherWake(w)
  \/ StopDisarm
  \/ StopJoin
  \/ StopCheck
  \/ MonitorDisarm
  \/ Terminate
  \/ WaitOrKill
  \/ RestartSettle
  \/ \E c \in 1..Len(child) : ChildExit(c)
  \/ Tick

\* one server as add_server or load_servers constructs it, monitoring off
Spec == Init /\ [][Next]_vars

\* ----------------------------------------------------- the crash loop
\* one start() of an auto-restarting server and no operator command after it
CrashInit ==
  /\ Init
  /\ auto_restart
  /\ CmdFor(stype) # "none"

CrashNext ==
  \/ RunScript(<<"start">>)
  \/ Return
  \/ \E t \in Threads : StartStep(t, MaxCrashSpawn)
  \/ \E w \in Watchers : WatcherStep(w)
  \/ \E c \in 1..Len(child) : ChildExit(c)
  \/ Tick

\* every thread keeps running, time passes, and every child launched exits
CrashFair ==
  /\ WF_vars(RunScript(<<"start">>))
  /\ \A t \in Threads : WF_vars(StartStep(t, MaxCrashSpawn))
  /\ \A w \in Watchers : WF_vars(WatcherStep(w))
  /\ WF_vars((\E c \in 1..Len(child) : ChildExit(c)))
  /\ WF_vars(Tick)

CrashSpec == CrashInit /\ [][CrashNext]_vars /\ CrashFair

\* ------------------------------------------------ start, stop, start again
ScriptInit ==
  /\ Init
  /\ CmdFor(stype) # "none"

ScriptNext ==
  \/ RunScript(<<"start", "stop", "start">>)
  \/ Return
  \/ \E t \in Threads : StartStep(t, MaxSpawn)
  \/ \E w \in Watchers : WatcherStep(w)
  \/ StopDisarm
  \/ StopJoin
  \/ StopCheck
  \/ MonitorDisarm
  \/ Terminate
  \/ WaitOrKill
  \/ \E c \in 1..Len(child) : ChildExit(c)
  \/ Tick

ScriptSpec == ScriptInit /\ [][ScriptNext]_vars

\* ------------------------------------------------------- start, then stop
\* stop() as far as the operator thread runs it
StopStep ==
  \/ StopDisarm
  \/ StopJoin
  \/ StopCheck
  \/ MonitorDisarm
  \/ Terminate
  \/ WaitOrKill

\* one start() and one stop() of an auto-restarting server
StopInit ==
  /\ Init
  /\ auto_restart
  /\ CmdFor(stype) # "none"

StopNext ==
  \/ RunScript(<<"start", "stop">>)
  \/ Return
  \/ \E t \in Threads : StartStep(t, MaxCrashSpawn)
  \/ \E w \in Watchers : WatcherStep(w)
  \/ StopStep
  \/ \E c \in 1..Len(child) : ChildExit(c)
  \/ Tick

\* every thread keeps running and time passes; a child may run for ever
StopFair ==
  /\ \A t \in Threads : WF_vars(StartStep(t, MaxCrashSpawn))
  /\ \A w \in Watchers : WF_vars(WatcherStep(w))
  /\ WF_vars(StopStep)
  /\ WF_vars(Tick)

StopSpec == StopInit /\ [][StopNext]_vars /\ StopFair

\* ------------------------------------------------- background monitoring
\* a server without auto-restart whose monitor flag load_servers may have set
\* (line 279), and the monitor command
MonInit ==
  /\ ServerInit
  /\ RegInit
  /\ monitor_enabled \in BOOLEAN
  /\ ~auto_restart
  /\ CmdFor(stype) # "none"

MonNext ==
  \/ \E c \in {"start", "stop", "restart"} : Command(c)
  \/ MonitorOn
  \/ MonitorOnGuard
  \/ MonitorOnAttach
  \/ MonitorOff
  \/ Return
  \/ StartCheck(Op)
  \/ RotateStamp(Op)
  \/ RotateMove(Op)
  \/ OpenLog(Op)
  \/ Spawn(Op, MaxSpawn)
  \/ StartMonitor(Op)
  \/ StartMonitorAttach(Op)
  \/ WatchGuard(Op)
  \/ StopDisarm
  \/ StopCheck
  \/ MonitorDisarm
  \/ MonitorJoin
  \/ Terminate
  \/ WaitOrKill
  \/ RestartSettle
  \/ \E s \in Samplers : SamplerExit(s)
  \/ \E c \in 1..Len(child) : ChildExit(c)
  \/ Tick

MonSpec == MonInit /\ [][MonNext]_vars

\* ------------------------------------- monitoring of an auto-restarting server
\* the monitor command and the sampler while the watcher restarts the server
WatchMonInit ==
  /\ ServerInit
  /\ RegInit
  /\ monitor_enabled \in BOOLEAN
  /\ auto_restart
  /\ CmdFor(stype) # "none"
  /\ max_retries = 1

WatchMonNext ==
  \/ Command("start")
  \/ MonitorOn
  \/ MonitorOnGuard
  \/ MonitorOnAttach
  \/ MonitorOff
  \/ MonitorDisarm
  \/ MonitorJoin
  \/ Return
  \/ \E t \in Threads : StartStep(t, MaxInputSpawn)
  \/ \E t \in Threads : StartMonitorAttach(t)
  \/ \E w \in Watchers : WatcherStep(w)
  \/ \E s \in Samplers : SamplerExit(s)
  \/ \E c \in 1..Len(child) : ChildExit(c)
  \/ Tick

WatchMonSpec == WatchMonInit /\ [][WatchMonNext]_vars

\* ------------------------------------------------- input and the terminal
\* a server of a mapped type, started by the operator, sent lines with send and
\* from the interactive terminal while its watcher restarts it
InputInit ==
  /\ Init
  /\ CmdFor(stype) # "none"
  /\ max_retries = 1

InputNext ==
  \/ Command("start")
  \/ \E txt \in Lines : SendCommand(txt)
  \/ LogCommand
  \/ Return
  \/ SendCheck
  \/ SendWrite
  \/ TerminalOpen
  \/ \E inp \in Lines : TerminalInput(inp)
  \/ \E how \in {"interrupt", "eof"} : TerminalInterrupt(how)
  \/ TerminalFinally
  \/ TerminalJoin
  \/ ReaderOpen
  \/ ReaderTest
  \/ \E t \in Threads : StartStep(t, MaxInputSpawn)
  \/ \E w \in Watchers : WatcherStep(w)
  \/ \E c \in 1..Len(child) : ChildExit(c)
  \/ Tick

InputSpec == InputInit /\ [][InputNext]_vars

\* ------------------------------------------------- removing a started server
\* the registry entry whose Server object the server variables model
ManagedServer ==
  [id |-> 1, name |-> "srv", path |-> PathOf("a", "srv", ".py"),
   type |-> "python", running |-> FALSE]

\* main line 403 and remove_server lines 311-313 and 317-318: look the name up
\* and call the entry's stop()
RemoveCommand(name) ==
  /\ pc[Op] = "idle"
  /\ scen < MaxOps
  /\ scen' = scen + 1
  /\ cmd' = "remove"
  /\ IF get_server(name) = 0
       THEN /\ res' = [res EXCEPT ![Op] = "notfound"]
            /\ Goto(Op, "done")
       ELSE /\ res' = res
            /\ Goto(Op, "t_set")
  /\ UNCHANGED <<regVars, ioVars, cfgVars, monitor_enabled, procVars, watchVars,
                 monVars, fsVars, ts, lh, sp>>

\* remove_server lines 314-316: stop() has returned; drop the object from the
\* list and save
RemoveDrop ==
  /\ pc[Op] = "x_drop"
  /\ LET i == CHOOSE j \in 1..Len(servers) : servers[j].id = ManagedServer.id
     IN /\ removed' = removed \cup {[servers[i] EXCEPT !.running = is_running]}
        /\ servers' = RemoveAt(servers, i)
        /\ saved' = Saved(servers')
  /\ rt' = Forget
  /\ res' = [res EXCEPT ![Op] = "removed"]
  /\ Goto(Op, "done")
  /\ UNCHANGED <<nextid, files, folders, logs, ioVars, cfgVars, monitor_enabled,
                 procVars, watchVars, monVars, fsVars, ts, lh, sp, opVars>>

\* the registry holds one server, added from a/srv.py
RemoveInit ==
  /\ ServerInit
  /\ monitor_enabled = FALSE
  /\ stype = ManagedServer.type
  /\ servers = <<ManagedServer>>
  /\ nextid = 1
  /\ saved = Saved(servers)
  /\ files = UserFiles
  /\ folders = {}
  /\ logs = [n \in Stems |-> 0]
  /\ removed = {}
  /\ rt = Forget

RemoveNext ==
  \/ (get_server(ManagedServer.name) # 0 /\ Command("start"))
  \/ RemoveCommand(ManagedServer.name)
  \/ RemoveDrop
  \/ Return
  \/ \E t \in Threads : StartStep(t, MaxSpawn)
  \/ \E w \in Watchers : WatcherStep(w)
  \/ StopStep
  \/ \E c \in 1..Len(child) : ChildExit(c)
  \/ Tick

RemoveSpec == RemoveInit /\ [][RemoveNext]_vars

\* ------------------------------------------------------------ the registry
RegNext ==
  \/ \E p \in UserPaths \cup CreatedPaths : add_server(p)
  \/ \E n \in Stems, t \in CreateTypes : create_server(n, t)
  \/ \E n \in Stems : remove_server(n)
  \/ \E n \in Stems : StartNamed(n)
  \/ \E n \in Stems : StopNamed(n)

\* the registry alone: the server of the other specifications stays idle
RegSpecInit ==
  /\ Init
  /\ auto_restart
  /\ stype = "python"
  /\ max_retries = DefaultMaxRetries

RegSpec == RegSpecInit /\ [][RegNext]_vars

\* ================================================================ the claims
\* stop() has returned and the operator has issued nothing since
StopReturned == pc[Op] = "done" /\ cmd = "stop"

\* C1: no resurrection. Once stop() has returned, and until the operator's next
\* start or restart, the process is not Running, whatever the watcher thread
\* was doing when stop() was called.
C1_NoResurrection == StopReturned => ~is_running

\* the watcher attached last has left its loop
WatcherGaveUp == restart_thread # 0 /\ pc[restart_thread] = "dead"

\* C2: restart bound. With auto-restart on, max_retries = N, children that always
\* exit and no operator call after the first start(): the watcher never calls
\* start() more than N times; it does leave its loop; when it has, it has called
\* start() exactly N times, retry_count is N and the process is not Running; and
\* from then on it stays out of its loop and no child is spawned again.
C2_RestartBound ==
  /\ [](wstarts <= max_retries /\ retry_count <= max_retries)
  /\ [](WatcherGaveUp =>
          wstarts = max_retries /\ retry_count = max_retries /\ ~is_running)
  /\ [][WatcherGaveUp => WatcherGaveUp' /\ Len(child') = Len(child)]_vars
  /\ (restart_thread # 0 ~> WatcherGaveUp)

\* C2 witness: with the default of 3 retries the watcher has given up after the
\* first child and three restarted ones.
C2_Witness ==
  /\ WatcherGaveUp
  /\ max_retries = DefaultMaxRetries
  /\ wstarts = DefaultMaxRetries
  /\ Len(child) = DefaultMaxRetries + 1
  /\ \A c \in 1..Len(child) : child[c].st = "exited"

\* C3: at most one child of the server is alive, and a live child is the one
\* self.process refers to.
C3_AtMostOneLiveChild ==
  /\ Cardinality(LiveChildren) <= 1
  /\ LiveChildren \subseteq {process}

\* the step in which the operator's start() (by start or by restart) returns
StartReturns == pc[Op] # "done" /\ pc'[Op] = "done" /\ cmd \in {"start", "restart"}

\* C4: postcondition of start() called on a process that is not Running. When it
\* returns after spawning, self.process is the child it spawned, and that child
\* has not been stopped (it is alive unless it exited by itself); when it
\* returns because the type is unmapped or Popen failed, the process is not
\* Running.
C4_StartPostcondition ==
  [][StartReturns =>
       /\ res'[Op] = "spawned" =>
            process' = sp'[Op] /\ child'[sp'[Op]].st \in {"alive", "exited"}
       /\ res'[Op] \in {"unknown", "failed"} => ~is_running']_vars

\* C5: start() on a Running process is a no-op. The step that finds the process
\* running reports "already running" and returns; the handle, the children, the
\* log files, retry_count, the watcher and the sampler threads are what they
\* were, and exactly one child is alive.
C5_StartIdempotent ==
  [][(pc[Op] = "s_check" /\ is_running /\ pc'[Op] # "s_check") =>
       /\ pc'[Op] = "done"
       /\ res'[Op] = "already"
       /\ process' = process
       /\ child' = child
       /\ Cardinality(LiveChildren') = 1
       /\ <<cur, rot, archive>>' = <<cur, rot, archive>>
       /\ retry_count' = retry_count
       /\ restart_thread' = restart_thread
       /\ LiveWatchers' = LiveWatchers
       /\ monitor_thread' = monitor_thread
       /\ sampler' = sampler]_vars

\* C6: an operator's start() that spawned a child of an auto-restarting server
\* returns with retry_count = 0.
C6_ExplicitStartResetsRetries ==
  [][(/\ pc[Op] \in {"s_watch", "s_watch2"}
      /\ pc'[Op] = "done"
      /\ auto_restart
      /\ res[Op] = "spawned") => retry_count' = 0]_vars

\* the log files that bear a name, and the runs whose output they hold
RotatedCount(k) == Cardinality({a \in Ages : rot[a].ex /\ rot[a].by = k}) + archive[k]
Kept ==
  cur.by \cup UNION {rot[a].by : a \in Ages}
         \cup UNION {k \in Contents : archive[k] > 0}

\* C7: log history is preserved. As long as every rename of _rotate_log has
\* succeeded, the output of every run launched so far is in the current log or
\* in a rotated file.
C7_HistoryPreserved == nrotfail = 0 => \A c \in 1..Len(child) : c \in Kept

\* C8: start(); stop(); start() from no log file, with every launch and rename
\* succeeding and no child exiting by itself. When the second start() has
\* returns there is exactly one rotated file, it holds the first run's output,
\* and the current log holds the second run's output only.
OneRotatedFile ==
  /\ RotatedCount({1}) = 1
  /\ \A k \in Contents \ {{1}} : RotatedCount(k) = 0
  /\ cur = File({2})

C8_OneRotatedFile ==
  [][(/\ StartReturns
      /\ scen = 3
      /\ nfail' = 0
      /\ nrotfail' = 0
      /\ \A c \in 1..Len(child') : child'[c].st # "exited") => OneRotatedFile']_vars

\* C9: no two entries of the registry have the same name.
C9_NamesUnique ==
  \A i, j \in 1..Len(servers) : servers[i].name = servers[j].name => i = j

\* C10: add(path) followed by remove(stem of path) leaves the registry with
\* the entries it had before the add, none stopped or replaced, and the log
\* files as they were.
C10_AddRemoveRoundTrip ==
  rt.phase = "removed" => servers = rt.before /\ logs = rt.logs

\* a step of send_input
SendStep == pc[Op] \in {"i_check", "i_write"} /\ pc'[Op] # pc[Op]

\* C11: send_input(text) writes text and a line terminator to the stdin of the
\* child self.process refers to, and only when that child is running; when the
\* process is not running it reports that and writes nothing, when the write
\* fails it reports the failure; it always returns to its caller; its steps
\* leave the handle, the children, retry_count, both events and the watcher and
\* sampler threads as they were; and nothing else writes to a child's stdin.
C11_SendInput ==
  /\ [][SendStep =>
          /\ pc'[Op] \in {"i_write", SendRet}
          /\ <<process, child, retry_count, restart_stop, restart_thread>>'
               = <<process, child, retry_count, restart_stop, restart_thread>>
          /\ <<monitor_stop, monitor_thread, sampler>>'
               = <<monitor_stop, monitor_thread, sampler>>
          /\ LiveWatchers' = LiveWatchers
          /\ sent' # sent =>
               /\ pc[Op] = "i_write"
               /\ is_running
               /\ sent' = Append(sent, [to |-> process,
                                        data |-> Append(text, "\n"),
                                        via |-> cmd])
               /\ res'[Op] = "sent"
          /\ (pc[Op] = "i_check" /\ ~is_running) =>
               sent' = sent /\ res'[Op] = "notrunning" /\ pc'[Op] = SendRet
          /\ (pc[Op] = "i_write" /\ sent' = sent) => res'[Op] = "sendfailed"]_vars
  /\ [][sent' # sent => SendStep]_vars

\* C11 witness: a send that reached a running child, and then a send whose write
\* failed because the child exited between the running test and the write.
C11_Witness ==
  /\ pc[Op] = "done"
  /\ cmd = "send"
  /\ res[Op] = "sendfailed"
  /\ ~is_running
  /\ Len(sent) = 1
  /\ sent[1].data = <<"l", "s", "\n">>

\* the lines that are the sentinel once trimmed and lower-cased
Sentinels == {<<"e", "x", "i", "t">>, <<" ", "E", "x", "i", "T", " ">>}

\* a step of open_terminal, send_input called from its loop included
SessionStep ==
  /\ cmd = "log"
  /\ pc[Op] \in {"o_check", "o_input", "i_check", "i_write", "o_fin", "o_join"}
  /\ pc'[Op] # pc[Op]

\* C12: the interactive terminal leaves its input loop on the sentinel (trimmed,
\* in any case), on an interrupt and on end of input, and on nothing else; the
\* sentinel is never sent to the child; the session returns only with the
\* event set and the reader thread ended; and no step of the session changes
\* the handle, the children, retry_count, the two events of the server or its
\* watcher and sampler threads.
C12_SessionEnds ==
  /\ [][(pc[Op] = "o_input" /\ pc'[Op] # "o_input") =>
          IF res'[Op] \in {"interrupt", "eof"} \/ text' \in Sentinels
            THEN pc'[Op] = "o_fin" /\ sent' = sent
            ELSE pc'[Op] = "i_check"]_vars
  /\ [](\A i \in 1..Len(sent) :
          sent[i].via = "log" =>
            SubSeq(sent[i].data, 1, Len(sent[i].data) - 1) \notin Sentinels)
  /\ [](pc[Op] = "o_join" => stop_flag)
  /\ [][(pc[Op] = "o_join" /\ pc'[Op] # "o_join") =>
          pc'[Op] = "done" /\ stop_flag /\ reader = "dead" /\ reader' = "dead"]_vars
  /\ [][SessionStep =>
          /\ <<process, child, retry_count, restart_stop, restart_thread>>'
               = <<process, child, retry_count, restart_stop, restart_thread>>
          /\ <<monitor_stop, monitor_thread, sampler>>'
               = <<monitor_stop, monitor_thread, sampler>>
          /\ LiveWatchers' = LiveWatchers]_vars

\* C12 witness: a session that forwarded a line, ended on the sentinel and
\* returned with the reader ended and the process still running.
C12_Witness ==
  /\ pc[Op] = "done"
  /\ cmd = "log"
  /\ res[Op] = "none"
  /\ stop_flag
  /\ reader = "dead"
  /\ Len(sent) >= 1
  /\ sent[Len(sent)].via = "log"
  /\ is_running

\* C13: start() of a server whose type has no launch command reports the
\* unknown type and returns without any effect: no rotation, no log file
\* created or truncated, no child, the handle and retry_count as they were, no
\* watcher and no sampler attached. Such a server never has a child, a log
\* file, a watcher or a sampler.
C13_UnknownTypeRejected ==
  /\ [][\A t \in Threads :
          (pc[t] = "s_check" /\ pc'[t] # "s_check" /\ CmdFor(stype) = "none") =>
            /\ res'[t] = "unknown"
            /\ pc'[t] = StartRet(t)
            /\ <<cur, rot, archive, process, child, retry_count>>'
                 = <<cur, rot, archive, process, child, retry_count>>
            /\ <<restart_stop, restart_thread, monitor_stop, monitor_thread, sampler>>'
                 = <<restart_stop, restart_thread, monitor_stop, monitor_thread, sampler>>
            /\ LiveWatchers' = LiveWatchers]_vars
  /\ [](CmdFor(stype) = "none" =>
          /\ cur = NoFile
          /\ \A a \in Ages : rot[a] = NoFile
          /\ child = <<>>
          /\ process = 0
          /\ retry_count = 0
          /\ restart_thread = 0
          /\ LiveWatchers = {}
          /\ LiveSamplers = {})

\* C13 witness: the operator's start() of a server of an unmapped type has
\* returned with the unknown-type notice.
C13_Witness ==
  /\ CmdFor(stype) = "none"
  /\ pc[Op] = "done"
  /\ cmd = "start"
  /\ res[Op] = "unknown"

\* C14: stop ordering. At the step in which stop() sends the termination
\* signal, restart_stop is set and no watcher thread is alive.
C14_WatcherEndedBeforeTerminate ==
  [][(pc[Op] = "t_term" /\ pc'[Op] = "t_wait") =>
       restart_stop /\ LiveWatchers = {}]_vars

\* C15: start always arms. When the operator's start() (by start or by
\* restart) of an auto-restarting server returns after spawning a child, the
\* watcher thread it refers to is alive and restart_stop is clear.
C15_StartArmsWatcher ==
  [][(StartReturns /\ auto_restart /\ res'[Op] = "spawned") =>
       /\ restart_thread' # 0
       /\ pc'[restart_thread'] # "dead"
       /\ ~restart_stop']_vars

\* C16: the watcher's own start() never resets retry_count. retry_count only
\* drops when the operator's start() attaches a watcher; it only rises by one,
\* in the watcher's step that decides on a restart; the watcher's call of
\* start() leaves it as it is; and it equals the number of start() calls the
\* watcher has made plus the restart it has decided on and not yet begun.
C16_WatcherKeepsCount ==
  /\ [][retry_count' < retry_count =>
          pc[Op] = "s_watch2" /\ pc'[Op] = "done"]_vars
  /\ [][retry_count' > retry_count =>
          /\ retry_count' = retry_count + 1
          /\ \E w \in Watchers : pc[w] = "w_poll" /\ pc'[w] = "w_backoff"]_vars
  /\ [][\A w \in Watchers :
          (pc[w] \in {"w_backoff", "s_check", "s_rot", "s_move", "s_open",
                      "s_spawn", "s_mon", "s_watch"} /\ pc'[w] # pc[w]) =>
            retry_count' = retry_count]_vars
  /\ [](retry_count =
          wstarts + Cardinality({w \in Watchers : pc[w] = "w_backoff"}))

\* C16 witness: the watcher has restarted the server twice in a row and
\* retry_count is 2.
C16_Witness ==
  /\ retry_count = 2
  /\ wstarts = 2
  /\ is_running
  /\ process = 3

\* C18: rotation before spawn. Every child alive writes to the file that is the
\* current log, never to a file that was rotated away or unlinked.
C18_OutputToCurrentLog == \A c \in LiveChildren : child[c].out = OnCur

\* C17: at most one restart-watcher thread and at most one usage-sampler thread
\* of the server is alive.
C17_OneWatcherOneSampler ==
  /\ Cardinality(LiveWatchers) <= 1
  /\ Cardinality(LiveSamplers) <= 1

\* C19: watcher cancellation. Once restart_stop is set, every watcher thread
\* leaves its loop, at the latest at its next test of the event; a watcher that
\* finds the process dead with the retries used up leaves its loop too; and a
\* watcher that has left its loop after stop() does not run again.
C19_WatcherCancelled ==
  /\ (restart_stop ~> LiveWatchers = {})
  /\ [][\A w \in Watchers :
          (pc[w] = "w_while" /\ restart_stop /\ pc'[w] # "w_while") =>
            pc'[w] = "dead"]_vars
  /\ [][\A w \in Watchers :
          (/\ pc[w] = "w_poll"
           /\ pc'[w] # "w_poll"
           /\ process # 0
           /\ ~is_running
           /\ retry_count >= max_retries) => pc'[w] = "dead"]_vars
  /\ [][(restart_stop /\ LiveWatchers = {}) => LiveWatchers' = {}]_vars

\* C19 witness: the watcher restarted the server once, stop() set the event
\* and the watcher has left its loop with retries to spare.
C19_Witness ==
  /\ restart_stop
  /\ restart_thread # 0
  /\ LiveWatchers = {}
  /\ wstarts = 1
  /\ retry_count < max_retries

\* C20: removal implies stopped. Once remove_server has dropped the server from
\* the registry, its process is not running, at that state and at every later
\* one.
C20_RemovedStaysStopped ==
  (\E s \in removed : s.id = ManagedServer.id) => ~is_running

====
